---- MODULE Spec2Model ----
\* Model of the packed bit-vector array (internal/math/bitvector/array.go) and of
\* the Euclid LSH nearest-neighbour index built on it (internal/nearest/euclid_lsh.go).
\*
\* A word (Go: word, a uint64) is the set of its set bit positions, a subset of
\* 0..63, so that shifts drop the bits that leave the 64-bit word exactly as the
\* machine does.  A buf ([]word) is a sequence of words; Go's 0-based index i is
\* the sequence's index i+1.  A slice with a capacity beyond its length (as the
\* word-aligned arrays keep) is its whole backing sequence plus the length dlen.
EXTENDS Integers, Sequences, FiniteSets, TLC

\* ---------------------------------------------------------------- bounds
\* the largest logical length a Resize asks for
MaxLen == 2
\* the largest row id a SetRow inserts
MaxID == 4
\* the largest row id of an index that is queried
MaxQueryID == 2

\* the bit widths the array is built with, chosen so that rows 0 and 1 take
\* every branch of Get and Set: below a word, 32 (two rows fill a word, the
\* second ends on its boundary) and 63 (row 1 straddles words 0 and 1); a word;
\* a multiple of a word; and general widths whose row 1 starts inside a word
\* and ends on a boundary (96), inside the word after its last whole word with
\* its last two words both split (65; 130 with a whole word between), or with
\* only its last word split (127)
BitNums == {32, 63, 64, 65, 96, 127, 128, 130}

\* ---------------------------------------------------------------- words
wordBits == 64

Nil == "nil"
ErrIndex == "invalid Array index"
ErrBitNum == "BitNum mismatch"
ErrArrayVersion == "unsupported format version of Array"
ErrEOF == "EOF"
ErrDecode == "decode error"
ErrLSHVersion == "unsupported format version of euclid_lsh container"
Panic == "panic: index out of range"

Min(a, b) == IF a < b THEN a ELSE b
maxInt(a, b) == IF a > b THEN a ELSE b
minInt(a, b) == IF a < b THEN a ELSE b

\* x >> k and x << k on a 64-bit word (a shift of 64 or more yields 0)
Shr(w, k) == {b - k : b \in {x \in w : x >= k}}
Shl(w, k) == {b + k : b \in {x \in w : x + k < wordBits}}
And(a, b) == a \cap b
Or(a, b) == a \cup b
Xor(a, b) == (a \ b) \cup (b \ a)
AndNot(a, b) == a \ b

\* (1 << n) - 1 on a word: the n least significant bits, all 64 once n >= 64
leastBits(n) == IF n >= wordBits THEN 0 .. (wordBits - 1) ELSE 0 .. (n - 1)

\* set(&w, offset, x, nbits): the nbits bits of w from offset on become the
\* nbits least significant bits of x; the other bits of w are kept
set(w, offset, x, nbits) ==
    LET mask == Shl(leastBits(nbits), offset)
    IN  Or(AndNot(w, mask), And(Shl(x, offset), mask))

\* number of words that hold len vectors of bitNum bits
nWords(bitNum, len) == (bitNum * len + wordBits - 1) \div wordBits

bitcount(w) == Cardinality(w)

\* make(buf, n): n zero words
make(n) == [i \in 1 .. n |-> {}]

\* copy(dst[lo:hi], src): Go copies min(hi-lo, len(src)) words
copy(dst, lo, hi, src) ==
    LET n == Min(hi - lo, Len(src))
    IN  [i \in 1 .. Len(dst) |-> IF i > lo /\ i <= lo + n THEN src[i - lo] ELSE dst[i]]

\* s[lo:hi] as a value
slice(s, lo, hi) == SubSeq(s, lo + 1, hi)

\* ---------------------------------------------------------------- Vector
Vector(data, bitNum) == [data |-> data, bitNum |-> bitNum]

\* the absent vector (a nil *Vector)
NoVec == Vector(<<>>, 0)

NewVector(bitNum) == IF bitNum <= 0 THEN NoVec ELSE Vector(make(nWords(bitNum, 1)), bitNum)

\* the vector of width bitNum whose set bits are S
VecOfBits(S, bitNum) ==
    Vector([k \in 1 .. nWords(bitNum, 1) |->
               {b - wordBits * (k - 1) : b \in {x \in S : x \div wordBits = k - 1}}],
           bitNum)

\* the bits of a vector, as positions 0..bitNum-1
BitsOf(v) == UNION {{b + wordBits * (k - 1) : b \in v.data[k]} : k \in 1 .. Len(v.data)}

ZeroVec(bitNum) == VecOfBits({}, bitNum)
OnesVec(bitNum) == VecOfBits(0 .. (bitNum - 1), bitNum)
\* a pattern of period 21 with the first bit set and the last bit clear, and (in
\* InvVec) the complement of that
MixBits(bitNum) == {i \in 0 .. (bitNum - 2) : i % 3 = 0 \/ i % 7 = 1}
MixVec(bitNum) == VecOfBits(MixBits(bitNum), bitNum)
InvVec(bitNum) == VecOfBits((0 .. (bitNum - 1)) \ MixBits(bitNum), bitNum)

\* the vectors a caller passes: two contents of the array's width that between
\* them set and clear every bit of a row (a row never set reads as ZeroVec)
Vecs(bitNum) == {MixVec(bitNum), InvVec(bitNum)}
\* a vector of another width
WrongVec(bitNum) == OnesVec(bitNum + 1)

\* popcount of x XOR v over the words of two vectors of one width
VectorHammingDistance(x, v) == Cardinality(Xor(BitsOf(x), BitsOf(v)))

\* ---------------------------------------------------------------- Array
\* One record for the five structs: kind names the struct, data is the backing
\* sequence of the buf (its length is the slice's capacity), dlen the slice's
\* length.  bitNum and len are the fields of generalArray and
\* smallPowerOfTwoBitsArray; wordArray has neither (its width is wordBits, its
\* length is len(data)) and multipleOfWordBitsArray has no len.
Array(kind, data, dlen, bitNum, len) ==
    [kind |-> kind, data |-> data, dlen |-> dlen, bitNum |-> bitNum, len |-> len]

\* a ^ b on non-negative ints
RECURSIVE IntXor(_, _)
IntXor(a, b) ==
    IF a = 0 /\ b = 0 THEN 0
    ELSE (IF a % 2 = b % 2 THEN 0 ELSE 1) + 2 * IntXor(a \div 2, b \div 2)

\* the absent array (a nil Array)
NilArray == Array(Nil, <<>>, 0, 0, 0)

createArray(data, bitNum, len) ==
    IF bitNum <= 0 \/ len < 0 THEN NilArray
    ELSE IF bitNum < wordBits THEN
        IF IntXor(bitNum, bitNum - 1) = 0
        THEN Array("smallPowerOfTwoBitsArray", data, Len(data), bitNum, len)
        ELSE Array("smallBitsArray", data, Len(data), bitNum, len)
    ELSE IF bitNum = wordBits THEN Array("wordArray", data, Len(data), wordBits, 0)
    ELSE IF bitNum % wordBits = 0 THEN Array("multipleOfWordBitsArray", data, Len(data), bitNum, 0)
    ELSE Array("generalArray", data, Len(data), bitNum, len)

NewArray(bitNum) == createArray(<<>>, bitNum, 0)

\* --- generalArray
generalArrayCap(a) == (Len(a.data) * wordBits) \div a.bitNum

generalArrayReserve(a, n) ==
    LET currCap == generalArrayCap(a)
        newCap == maxInt(n, 2 * currCap)
        newBuf == make(nWords(a.bitNum, newCap))
        data == copy(newBuf, 0, Len(newBuf), a.data)
    IN  IF n <= currCap THEN a
        ELSE [a EXCEPT !.data = data, !.dlen = Len(data)]

generalArrayResize(a, n) == [generalArrayReserve(a, n) EXCEPT !.len = n]

generalArrayGet(a, n) ==
    IF n < 0 \/ n >= a.len THEN [v |-> NoVec, err |-> ErrIndex]
    ELSE
    LET lbit == n * a.bitNum
        rbit == lbit + a.bitNum
        l == lbit \div wordBits
        r == rbit \div wordBits
        retLen == nWords(a.bitNum, 1)
        inWord == l = r \/ (l + 1 = r /\ rbit % wordBits = 0)
        \* the words indexed: a.data[l], and a.data[r] when the vector ends inside it
        used == IF inWord THEN {l}
                ELSE IF lbit % wordBits = 0 THEN {}
                ELSE IF rbit % wordBits = 0 THEN {l} ELSE {l, r}
    IN  IF \E i \in used : i >= Len(a.data) THEN [v |-> NoVec, err |-> Panic]
        ELSE IF inWord THEN
            LET mask == leastBits(a.bitNum)
                shift == lbit % wordBits
                x == And(Shr(a.data[l + 1], shift), mask)
            IN  [v |-> Vector(<<x>>, a.bitNum), err |-> Nil]
        ELSE IF lbit % wordBits = 0 THEN
            LET retBuf == copy(make(retLen), 0, retLen, slice(a.data, l, Len(a.data)))
                nTrailingBits == rbit % wordBits
                masked == IF nTrailingBits # 0
                          THEN [retBuf EXCEPT ![retLen] = And(@, leastBits(nTrailingBits))]
                          ELSE retBuf
            IN  [v |-> Vector(masked, a.bitNum), err |-> Nil]
        ELSE
            LET leftOffset == lbit % wordBits
                nLeftBits == wordBits - leftOffset
                leftBits == Shr(a.data[l + 1], leftOffset)
                nRightBits == rbit % wordBits
                nTrailingBits == a.bitNum % wordBits
                retBuf == copy(make(retLen), 0, retLen, slice(a.data, l + 1, r))
                out == IF nRightBits = 0 THEN
                           [retBuf EXCEPT ![retLen] = leftBits]
                       ELSE IF nLeftBits + nRightBits <= wordBits THEN
                           [retBuf EXCEPT ![retLen] =
                               set(set(@, 0, a.data[r + 1], nRightBits), nRightBits, leftBits, nLeftBits)]
                       ELSE
                           [retBuf EXCEPT
                               ![retLen - 1] =
                                   set(set(@, 0, a.data[r + 1], nRightBits),
                                       nRightBits, leftBits, wordBits - nRightBits),
                               ![retLen] =
                                   set(@, 0, Shr(leftBits, wordBits - nRightBits), nTrailingBits)]
            IN  [v |-> Vector(out, a.bitNum), err |-> Nil]

generalArraySet(a, n, v) ==
    IF a.bitNum # v.bitNum THEN [a |-> a, err |-> ErrBitNum]
    ELSE IF n < 0 \/ n >= a.len THEN [a |-> a, err |-> ErrIndex]
    ELSE
    LET lbit == n * a.bitNum
        rbit == lbit + a.bitNum
        l == lbit \div wordBits
        r == rbit \div wordBits
        len == Len(v.data)
        d == a.data
        inWord == l = r \/ (l + 1 = r /\ rbit % wordBits = 0)
        used == IF inWord THEN {l}
                ELSE IF lbit % wordBits = 0 THEN (IF rbit % wordBits = 0 THEN {} ELSE {r})
                ELSE IF rbit % wordBits = 0 THEN {l} ELSE {l, r}
    IN  IF \E i \in used : i >= Len(d) THEN [a |-> a, err |-> Panic]
        ELSE IF inWord THEN
            [a |-> [a EXCEPT !.data[l + 1] = set(@, lbit % wordBits, v.data[1], a.bitNum)],
             err |-> Nil]
        ELSE IF lbit % wordBits = 0 THEN
            IF rbit % wordBits = 0 THEN
                [a |-> [a EXCEPT !.data = copy(d, l, Len(d), v.data)], err |-> Nil]
            ELSE
                LET d1 == copy(d, l, Len(d), slice(v.data, 0, len - 1))
                IN  [a |-> [a EXCEPT !.data =
                               [d1 EXCEPT ![r + 1] = set(@, 0, v.data[len], a.bitNum % wordBits)]],
                     err |-> Nil]
        ELSE
            LET d1 == copy(d, l + 1, r, v.data)
                lOffset == lbit % wordBits
                leftNBits == wordBits - lOffset
                rightNBits == rbit % wordBits
                bitNumRes == a.bitNum % wordBits
                d2 == IF leftNBits < bitNumRes THEN
                          [d1 EXCEPT
                              ![r + 1] = set(@, 0, v.data[len], rightNBits),
                              ![l + 1] = set(@, lOffset, Shr(v.data[len], rightNBits), leftNBits)]
                      ELSE IF leftNBits = bitNumRes THEN
                          [d1 EXCEPT ![l + 1] = set(@, lOffset, v.data[len], leftNBits)]
                      ELSE
                          [d1 EXCEPT
                              ![r + 1] = set(@, 0, v.data[len - 1], rightNBits),
                              ![l + 1] = set(set(@, lOffset, Shr(v.data[len - 1], rightNBits),
                                                 wordBits - rightNBits),
                                             wordBits - bitNumRes, v.data[len], bitNumRes)]
            IN  [a |-> [a EXCEPT !.data = d2], err |-> Nil]

\* HammingDistance(a, n, v) of the package, the fallback generalArray uses:
\* the width check, then Get, then the vectors' distance
generalArrayHammingDistance(a, n, v) ==
    IF a.bitNum # v.bitNum THEN [d |-> 0, err |-> ErrBitNum]
    ELSE LET g == generalArrayGet(a, n)
         IN  IF g.err # Nil THEN [d |-> 0, err |-> g.err]
             ELSE [d |-> VectorHammingDistance(g.v, v), err |-> Nil]

\* --- smallBitsArray (wraps a generalArray, ga)
\* the word read by get and by HammingDistance
smallBitsArrayget(a, n) ==
    IF n < 0 \/ n >= a.len THEN [x |-> {}, err |-> ErrIndex]
    ELSE
    LET lbit == n * a.bitNum
        rbit == lbit + a.bitNum
        l == lbit \div wordBits
        r == rbit \div wordBits
        nRightBits == rbit % wordBits
        loffset == lbit % wordBits
        inWord == l = r \/ nRightBits = 0
        used == IF inWord THEN {l} ELSE {l, r}
    IN  IF \E i \in used : i >= Len(a.data) THEN [x |-> {}, err |-> Panic]
        ELSE IF inWord THEN
            [x |-> And(Shr(a.data[l + 1], loffset), leastBits(a.bitNum)), err |-> Nil]
        ELSE
            [x |-> Or(And(a.data[r + 1], leastBits(nRightBits)),
                      Shl(Shr(a.data[l + 1], loffset), nRightBits)),
             err |-> Nil]

smallBitsArrayGet(a, n) ==
    LET g == smallBitsArrayget(a, n)
    IN  IF g.err # Nil THEN [v |-> NoVec, err |-> g.err]
        ELSE [v |-> [NewVector(a.bitNum) EXCEPT !.data[1] = g.x], err |-> Nil]

\* smallBitsArrayHammingDistance reading every row as if it lay within word l
smallBitsArrayHammingDistanceInWord(a, n, v) ==
    IF a.bitNum # v.bitNum THEN [d |-> 0, err |-> ErrBitNum]
    ELSE IF n < 0 \/ n >= a.len THEN [d |-> 0, err |-> ErrIndex]
    ELSE LET x == And(Shr(a.data[((n * a.bitNum) \div wordBits) + 1], (n * a.bitNum) % wordBits),
                      leastBits(a.bitNum))
         IN  [d |-> bitcount(Xor(x, v.data[1])), err |-> Nil]

smallBitsArrayHammingDistance(a, n, v) ==
    IF a.bitNum # v.bitNum THEN [d |-> 0, err |-> ErrBitNum]
    ELSE LET g == smallBitsArrayget(a, n)
         IN  IF g.err # Nil THEN [d |-> 0, err |-> g.err]
             ELSE [d |-> bitcount(Xor(g.x, v.data[1])), err |-> Nil]

\* smallBitsArraySet with the left word given v's low bits: the shift by
\* nRightBits is left out
smallBitsArraySetNoShift(a, n, v) ==
    IF a.bitNum # v.bitNum THEN [a |-> a, err |-> ErrBitNum]
    ELSE IF n < 0 \/ n >= a.len THEN [a |-> a, err |-> ErrIndex]
    ELSE
    LET lbit == n * a.bitNum
        rbit == lbit + a.bitNum
        l == lbit \div wordBits
        r == rbit \div wordBits
        nRightBits == rbit % wordBits
        inWord == l = r \/ nRightBits = 0
    IN  IF inWord THEN
            [a |-> [a EXCEPT !.data[l + 1] = set(@, lbit % wordBits, v.data[1], a.bitNum)],
             err |-> Nil]
        ELSE
            [a |-> [a EXCEPT
                       !.data[r + 1] = set(@, 0, v.data[1], nRightBits),
                       !.data[l + 1] = set(@, lbit % wordBits, v.data[1], a.bitNum - nRightBits)],
             err |-> Nil]

smallBitsArraySet(a, n, v) ==
    IF a.bitNum # v.bitNum THEN [a |-> a, err |-> ErrBitNum]
    ELSE IF n < 0 \/ n >= a.len THEN [a |-> a, err |-> ErrIndex]
    ELSE
    LET lbit == n * a.bitNum
        rbit == lbit + a.bitNum
        l == lbit \div wordBits
        r == rbit \div wordBits
        nRightBits == rbit % wordBits
        inWord == l = r \/ nRightBits = 0
        used == IF inWord THEN {l} ELSE {l, r}
    IN  IF \E i \in used : i >= Len(a.data) THEN [a |-> a, err |-> Panic]
        ELSE IF inWord THEN
            [a |-> [a EXCEPT !.data[l + 1] = set(@, lbit % wordBits, v.data[1], a.bitNum)],
             err |-> Nil]
        ELSE
            [a |-> [a EXCEPT
                       !.data[r + 1] = set(@, 0, v.data[1], nRightBits),
                       !.data[l + 1] = set(@, lbit % wordBits, Shr(v.data[1], nRightBits),
                                           a.bitNum - nRightBits)],
             err |-> Nil]

\* --- wordArray
wordArrayResize(a, n) ==
    LET cap == Len(a.data)
        newBuf == make(2 * maxInt(cap, n))
    IN  IF n <= cap THEN [a EXCEPT !.dlen = n]
        ELSE [a EXCEPT !.data = copy(newBuf, 0, n, slice(a.data, 0, a.dlen)), !.dlen = n]

wordArrayLen(a) == a.dlen

wordArrayHammingDistance(a, n, v) ==
    IF v.bitNum # wordBits THEN [d |-> 0, err |-> ErrBitNum]
    ELSE IF n < 0 \/ n >= wordArrayLen(a) THEN [d |-> 0, err |-> ErrIndex]
    ELSE [d |-> bitcount(Xor(a.data[n + 1], v.data[1])), err |-> Nil]

wordArrayGet(a, n) ==
    IF n < 0 \/ n >= wordArrayLen(a) THEN [v |-> NoVec, err |-> ErrIndex]
    ELSE [v |-> Vector(slice(a.data, n, n + 1), wordBits), err |-> Nil]

wordArraySet(a, n, v) ==
    IF v.bitNum # wordBits THEN [a |-> a, err |-> ErrBitNum]
    ELSE IF n < 0 \/ n >= wordArrayLen(a) THEN [a |-> a, err |-> ErrIndex]
    ELSE [a |-> [a EXCEPT !.data[n + 1] = v.data[1]], err |-> Nil]

\* --- smallPowerOfTwoBitsArray
smallPowerOfTwoBitsArrayResize(a, n) ==
    LET newDataLen == nWords(a.bitNum, n)
        cap == Len(a.data)
        newBuf == make(2 * maxInt(cap, newDataLen))
        data == copy(newBuf, 0, Len(newBuf), a.data)
    IN  IF cap >= newDataLen THEN [a EXCEPT !.len = n]
        ELSE [a EXCEPT !.data = data, !.dlen = Len(data), !.len = n]

smallPowerOfTwoBitsArrayget(a, n) ==
    LET nelems == wordBits \div a.bitNum
        mask == leastBits(a.bitNum)
    IN  And(Shr(a.data[(n \div nelems) + 1], (n % nelems) * a.bitNum), mask)

smallPowerOfTwoBitsArrayGet(a, n) ==
    IF n < 0 \/ n >= a.len THEN [v |-> NoVec, err |-> ErrIndex]
    ELSE [v |-> [NewVector(a.bitNum) EXCEPT !.data[1] = smallPowerOfTwoBitsArrayget(a, n)],
          err |-> Nil]

smallPowerOfTwoBitsArraySet(a, n, v) ==
    IF a.bitNum # v.bitNum THEN [a |-> a, err |-> ErrBitNum]
    ELSE IF n < 0 \/ n >= a.len THEN [a |-> a, err |-> ErrIndex]
    ELSE
    LET nelems == wordBits \div a.bitNum
        mask == leastBits(a.bitNum)
        offset == (n % nelems) * a.bitNum
    IN  [a |-> [a EXCEPT !.data[(n \div nelems) + 1] =
                   Or(AndNot(@, Shl(mask, offset)), Shl(v.data[1], offset))],
         err |-> Nil]

\* int(w) of a word
RECURSIVE WordValue(_)
WordValue(w) ==
    IF w = {} THEN 0
    ELSE LET b == CHOOSE x \in w : TRUE IN 2 ^ b + WordValue(w \ {b})

\* the switch on bitNum: width 1 returns the XOR itself as an int; the other
\* widths cut the row's bits to the case's width (a mask for 2, 4 and 8, a
\* conversion to uint16 or uint32 for 16 and 32) and count the bits of the XOR
smallPowerOfTwoBitsArrayHammingDistance(a, n, v) ==
    IF a.bitNum # v.bitNum THEN [d |-> 0, err |-> ErrBitNum]
    ELSE IF n < 0 \/ n >= a.len THEN [d |-> 0, err |-> ErrIndex]
    ELSE IF a.bitNum = 1 THEN
        LET full == a.data[(n \div 64) + 1]
            part == And(Shr(full, n % 64), {0})
        IN  [d |-> WordValue(Xor(part, v.data[1])), err |-> Nil]
    ELSE IF a.bitNum \in {2, 4, 8} THEN
        LET per == wordBits \div a.bitNum
            full == a.data[(n \div per) + 1]
            part == And(Shr(full, a.bitNum * (n % per)), leastBits(a.bitNum))
        IN  [d |-> bitcount(And(Xor(part, v.data[1]), leastBits(16))), err |-> Nil]
    ELSE IF a.bitNum \in {16, 32} THEN
        LET per == wordBits \div a.bitNum
            full == a.data[(n \div per) + 1]
            part == And(Shr(full, a.bitNum * (n % per)), leastBits(a.bitNum))
        IN  [d |-> bitcount(Xor(part, And(v.data[1], leastBits(a.bitNum)))), err |-> Nil]
    ELSE [d |-> 0, err |-> "invalid BitNum"]

\* --- multipleOfWordBitsArray
\* multipleOfWordBitsArrayResize with a buffer made anew for every length, of
\* just that length
multipleOfWordBitsArrayResizeExact(a, n) ==
    LET newLen == n * (a.bitNum \div wordBits)
    IN  [a EXCEPT !.data = copy(make(newLen), 0, newLen, slice(a.data, 0, a.dlen)),
                  !.dlen = newLen]

multipleOfWordBitsArrayResize(a, n) ==
    LET newLen == n * (a.bitNum \div wordBits)
        cap == Len(a.data)
        newBuf == make(2 * maxInt(cap, newLen))
    IN  IF cap >= newLen THEN [a EXCEPT !.dlen = newLen]
        ELSE [a EXCEPT !.data = copy(newBuf, 0, newLen, slice(a.data, 0, a.dlen)),
                       !.dlen = newLen]

multipleOfWordBitsArrayLen(a) == a.dlen \div (a.bitNum \div wordBits)

\* the loop's sum of bitcount(data[at+i] ^ vdata[i]) over i < nw
RECURSIVE SumBitcountXor(_, _, _, _)
SumBitcountXor(data, at, vdata, nw) ==
    IF nw = 0 THEN 0
    ELSE SumBitcountXor(data, at, vdata, nw - 1)
         + bitcount(Xor(data[at + nw], vdata[nw]))

\* no check of n against Len(): a.data[n*nw+i] is indexed whatever n >= 0 is,
\* and Go panics on an index at or beyond len(a.data)
multipleOfWordBitsArrayHammingDistance(a, n, v) ==
    IF a.bitNum # v.bitNum THEN [d |-> 0, err |-> ErrBitNum]
    ELSE IF n < 0 THEN [d |-> 0, err |-> ErrIndex]
    ELSE
    LET nw == a.bitNum \div wordBits
    IN  IF \E i \in 0 .. (nw - 1) : n * nw + i >= a.dlen THEN [d |-> 0, err |-> Panic]
        ELSE [d |-> SumBitcountXor(a.data, n * nw, v.data, nw), err |-> Nil]

multipleOfWordBitsArrayGet(a, n) ==
    IF n < 0 \/ n >= multipleOfWordBitsArrayLen(a) THEN [v |-> NoVec, err |-> ErrIndex]
    ELSE
    LET v == NewVector(a.bitNum)
        nw == a.bitNum \div wordBits
    IN  [v |-> [v EXCEPT !.data = copy(v.data, 0, Len(v.data), slice(a.data, n * nw, a.dlen))],
         err |-> Nil]

\* multipleOfWordBitsArraySet checking n as HammingDistance does: n < 0 only
multipleOfWordBitsArraySetNoUpperCheck(a, n, v) ==
    IF a.bitNum # v.bitNum THEN [a |-> a, err |-> ErrBitNum]
    ELSE IF n < 0 THEN [a |-> a, err |-> ErrIndex]
    ELSE
    LET nw == a.bitNum \div wordBits
    IN  [a |-> [a EXCEPT !.data = copy(a.data, n * nw, a.dlen, v.data)], err |-> Nil]

multipleOfWordBitsArraySet(a, n, v) ==
    IF a.bitNum # v.bitNum THEN [a |-> a, err |-> ErrBitNum]
    ELSE IF n < 0 \/ n >= multipleOfWordBitsArrayLen(a) THEN [a |-> a, err |-> ErrIndex]
    ELSE
    LET nw == a.bitNum \div wordBits
    IN  [a |-> [a EXCEPT !.data = copy(a.data, n * nw, a.dlen, v.data)], err |-> Nil]

\* --- the Array interface: dispatch on the struct
ArrayResize(a, n) ==
    CASE a.kind = "wordArray" -> wordArrayResize(a, n)
      [] a.kind = "multipleOfWordBitsArray" -> multipleOfWordBitsArrayResize(a, n)
      [] a.kind = "smallPowerOfTwoBitsArray" -> smallPowerOfTwoBitsArrayResize(a, n)
      [] OTHER -> generalArrayResize(a, n)

ArrayLen(a) ==
    CASE a.kind = "wordArray" -> wordArrayLen(a)
      [] a.kind = "multipleOfWordBitsArray" -> multipleOfWordBitsArrayLen(a)
      [] OTHER -> a.len

ArrayBitNum(a) == IF a.kind = "wordArray" THEN wordBits ELSE a.bitNum

ArrayGet(a, n) ==
    CASE a.kind = "wordArray" -> wordArrayGet(a, n)
      [] a.kind = "multipleOfWordBitsArray" -> multipleOfWordBitsArrayGet(a, n)
      [] a.kind = "smallPowerOfTwoBitsArray" -> smallPowerOfTwoBitsArrayGet(a, n)
      [] a.kind = "smallBitsArray" -> smallBitsArrayGet(a, n)
      [] OTHER -> generalArrayGet(a, n)

ArraySet(a, n, v) ==
    CASE a.kind = "wordArray" -> wordArraySet(a, n, v)
      [] a.kind = "multipleOfWordBitsArray" -> multipleOfWordBitsArraySet(a, n, v)
      [] a.kind = "smallPowerOfTwoBitsArray" -> smallPowerOfTwoBitsArraySet(a, n, v)
      [] a.kind = "smallBitsArray" -> smallBitsArraySet(a, n, v)
      [] OTHER -> generalArraySet(a, n, v)

ArrayHammingDistance(a, n, v) ==
    CASE a.kind = "wordArray" -> wordArrayHammingDistance(a, n, v)
      [] a.kind = "multipleOfWordBitsArray" -> multipleOfWordBitsArrayHammingDistance(a, n, v)
      [] a.kind = "smallPowerOfTwoBitsArray" -> smallPowerOfTwoBitsArrayHammingDistance(a, n, v)
      [] a.kind = "smallBitsArray" -> smallBitsArrayHammingDistance(a, n, v)
      [] OTHER -> generalArrayHammingDistance(a, n, v)

\* ---------------------------------------------------------------- Save / Load
\* The persisted bytes as a sequence of tokens: single bytes (the version byte,
\* the codec's container header) and the codec's encoded items.
TokByte(b) == [tag |-> "byte", val |-> <<b>>]
TokStr(s) == [tag |-> "str", val |-> <<s>>]
TokInt(n) == [tag |-> "int", val |-> <<n>>]
TokWords(d) == [tag |-> "words", val |-> d]

arrayFormatVersion == 1

\* arrayData's struct tag is codec",toarray" without the colon, which is no
\* key:"value" tag, so the codec writes the struct as a map of three named
\* fields: the fixmap header 0x83, then each field's name and value
arrayDataHeader == 131

EncodeArrayData(data, bitNum, len) ==
    <<TokByte(arrayDataHeader), TokStr("Data"), TokWords(data), TokStr("BitNum"), TokInt(bitNum),
      TokStr("Len"), TokInt(len)>>

\* Decode into arrayData: the rest of the stream after the record, or an error
DecodeArrayData(r) ==
    IF Len(r) >= 7 /\ r[1] = TokByte(arrayDataHeader)
       /\ r[2] = TokStr("Data") /\ r[3].tag = "words"
       /\ r[4] = TokStr("BitNum") /\ r[5].tag = "int"
       /\ r[6] = TokStr("Len") /\ r[7].tag = "int"
    THEN [Data |-> r[3].val, BitNum |-> r[5].val[1], Len |-> r[7].val[1],
          rest |-> SubSeq(r, 8, Len(r)), err |-> Nil]
    ELSE [Data |-> <<>>, BitNum |-> 0, Len |-> 0, rest |-> <<>>, err |-> ErrDecode]

\* generalArraySave writing the capacity in rows as Len
generalArraySaveCapAsLen(a) ==
    <<TokByte(arrayFormatVersion)>> \o EncodeArrayData(a.data, a.bitNum, generalArrayCap(a))

generalArraySave(a) ==
    <<TokByte(arrayFormatVersion)>> \o EncodeArrayData(a.data, a.bitNum, a.len)

\* wordArray, smallPowerOfTwoBitsArray and multipleOfWordBitsArray save through a
\* generalArray built of their fields; a.data is the slice, so its dlen words
wordArraySave(a) ==
    generalArraySave(Array("generalArray", slice(a.data, 0, a.dlen), a.dlen, wordBits, a.dlen))

smallPowerOfTwoBitsArraySave(a) ==
    generalArraySave(Array("generalArray", a.data, a.dlen, a.bitNum, a.len))

multipleOfWordBitsArraySave(a) ==
    generalArraySave(Array("generalArray", slice(a.data, 0, a.dlen), a.dlen, a.bitNum,
                           multipleOfWordBitsArrayLen(a)))

ArraySave(a) ==
    CASE a.kind = "wordArray" -> wordArraySave(a)
      [] a.kind = "multipleOfWordBitsArray" -> multipleOfWordBitsArraySave(a)
      [] a.kind = "smallPowerOfTwoBitsArray" -> smallPowerOfTwoBitsArraySave(a)
      [] OTHER -> generalArraySave(a)

loadArrayFormatV1(r) ==
    LET d == DecodeArrayData(r)
    IN  IF d.err # Nil THEN [a |-> NilArray, err |-> d.err, rest |-> r]
        ELSE [a |-> createArray(d.Data, d.BitNum, d.Len), err |-> Nil, rest |-> d.rest]

\* LoadArray without the switch on the version byte
LoadArrayAnyVersion(r) ==
    IF r = <<>> THEN [a |-> NilArray, err |-> ErrEOF, rest |-> r]
    ELSE loadArrayFormatV1(Tail(r))

\* reads one byte, the format version, and decodes the rest only for version 1
LoadArray(r) ==
    IF r = <<>> THEN [a |-> NilArray, err |-> ErrEOF, rest |-> r]
    ELSE IF r[1] = TokByte(1) THEN loadArrayFormatV1(Tail(r))
    ELSE [a |-> NilArray, err |-> ErrArrayVersion, rest |-> Tail(r)]

\* ---------------------------------------------------------------- state
VARIABLES
    arr,      \* the packed array under test
    stored,   \* history: per row, the vector the last successful Set stored there
              \* since the length last covered the row (NoVec: none)
    stream,   \* the bytes Save wrote, until Load reads them
    saved,    \* history: the array Save wrote, kept until the next Resize or Set
    op,       \* the last operation called
    ret,      \* what it returned (Get and HammingDistance change nothing: they are
              \* the operators ArrayGet and ArrayHammingDistance of the state)
    e,        \* the EuclidLSH index: lshs (its packed array) and norms
    result,   \* what the last call returned when it was a query: its rows, with the
              \* query they answer
    ga        \* a generalArray of arr's bitNum given the same Resize and Set calls

vars == <<arr, stored, stream, saved, op, ret, e, result, ga>>

Rows == 0 .. (MaxLen - 1)
\* row indexes a caller passes: in range, negative, and at or beyond the length
Indexes == -1 .. MaxLen
\* version bytes a Load meets besides the saved one
VersionBytes == {0, 1, 2, 99}

\* what a call returned: the error, and for a Load the version byte it read,
\* whether it returned no array and how many tokens it left unread
Ret(err, n, none, rest) == [err |-> err, n |-> n, none |-> none, rest |-> rest]

NoStored == [i \in Rows |-> NoVec]
NoIndex == [lshs |-> NilArray, norms |-> <<>>, nlen |-> 0]
\* a query's result rows, with the query they answer
NoResult == [rows |-> <<>>, x |-> NoVec, norm |-> 0, size |-> 0]

Init ==
    /\ \E b \in BitNums : arr = NewArray(b)
    /\ op = "NewArray"
    /\ stored = NoStored
    /\ stream = <<>>
    /\ saved = NilArray
    /\ ga = NilArray
    /\ ret = Ret(Nil, 0, FALSE, 0)
    /\ e = NoIndex
    /\ result = NoResult

Resize(n) ==
    /\ stream = <<>>
    /\ arr' = ArrayResize(arr, n)
    /\ stored' = [i \in Rows |-> IF i < n THEN stored[i] ELSE NoVec]
    /\ op' = "Resize"
    /\ ret' = Ret(Nil, 0, FALSE, 0)
    /\ saved' = NilArray
    /\ UNCHANGED <<stream, e, result, ga>>

Set(n, v) ==
    /\ stream = <<>>
    /\ LET r == ArraySet(arr, n, v)
       IN  /\ arr' = r.a
           /\ stored' = IF r.err = Nil THEN [stored EXCEPT ![n] = v] ELSE stored
           /\ ret' = Ret(r.err, 0, FALSE, 0)
    /\ op' = "Set"
    /\ saved' = NilArray
    /\ UNCHANGED <<stream, e, result, ga>>

Save ==
    /\ stream = <<>>
    /\ stream' = ArraySave(arr)
    /\ saved' = arr
    /\ op' = "Save"
    /\ ret' = Ret(Nil, 0, FALSE, 0)
    /\ UNCHANGED <<arr, stored, e, result, ga>>

\* LoadArray on the saved bytes (ver = arrayFormatVersion) or on bytes that
\* start with another version byte; a failed load returns no array and the
\* caller keeps the one it has
Load(ver) ==
    /\ stream # <<>>
    /\ LET r == LoadArray(<<TokByte(ver)>> \o Tail(stream))
       IN  /\ arr' = IF r.err = Nil THEN r.a ELSE arr
           /\ ret' = Ret(r.err, ver, r.a = NilArray, Len(r.rest))
    /\ stream' = <<>>
    /\ op' = "Load"
    /\ UNCHANGED <<stored, saved, e, result, ga>>

\* the vectors a caller passes to an array of width b
Args(b) == Vecs(b) \cup {WrongVec(b)}

Next ==
    \/ \E n \in 0 .. MaxLen : Resize(n)
    \/ \E n \in Indexes : \E v \in Args(ArrayBitNum(arr)) : Set(n, v)
    \/ Save
    \/ \E ver \in VersionBytes : Load(ver)

Spec == Init /\ [][Next]_vars

\* ---------------------------------------------------------------- EuclidLSH
\* The index e: lshs, the packed array of sketches; norms, the backing sequence
\* of the []float32 (its length is the slice's capacity); nlen, the slice's
\* length.  float32 values are modelled by integers: the weights of the feature
\* vectors used are integers whose norms are integers too, a cosine is carried
\* in thousandths, and so are the scores and distances computed from it.
euclidLSHFormatVersion == 1
\* the hashNum values an index is built with: one per reachable specialization
HashNums == {8, 64, 65, 128}
\* and those of the indexes that are queried
QueryHashNums == {8, 128}
Milli == 1000

NewEuclidLSH(hashNum) == [lshs |-> NewArray(hashNum), norms |-> <<>>, nlen |-> 0]

\* a FeatureVector is a sequence of [Dim, Value] elements
FeatureVectors ==
    { <<[Dim |-> "a", Value |-> 1]>>,
      <<[Dim |-> "b", Value |-> 2]>>,
      <<[Dim |-> "a", Value |-> 3], [Dim |-> "b", Value |-> 4]>> }

\* calcStringHash: a fixed seed per dimension name
calcStringHash(dim) == IF dim = "a" THEN 1 ELSE 2
\* the j-th NormFloat64 of the generator seeded with seed: fixed per (seed, j),
\* of either sign
NormFloat64(seed, j) == ((seed * 7 + j * j * (2 * seed + 1) + j * 3) % 11) - 5

RECURSIVE SumProj(_, _, _)
SumProj(v, i, j) ==
    IF i > Len(v) THEN 0
    ELSE v[i].Value * NormFloat64(calcStringHash(v[i].Dim), j) + SumProj(v, i + 1, j)

randomProjection(v, hashNum) == [j \in 0 .. (hashNum - 1) |-> SumProj(v, 1, j)]

binarize(proj, hashNum) == VecOfBits({j \in 0 .. (hashNum - 1) : proj[j] > 0}, hashNum)

cosineLSH(v, hashNum) == binarize(randomProjection(v, hashNum), hashNum)

\* the sketches of the feature vectors used, computed once per width
Sketches == [h \in HashNums |-> [v \in FeatureVectors |-> cosineLSH(v, h)]]
SketchOf(v, hashNum) == Sketches[hashNum][v]

RECURSIVE squaredL2NormFrom(_, _)
squaredL2NormFrom(v, i) ==
    IF i > Len(v) THEN 0 ELSE v[i].Value * v[i].Value + squaredL2NormFrom(v, i + 1)
squaredL2Norm(v) == squaredL2NormFrom(v, 1)

\* the square root, rounded down to the model's integers: the greatest r in
\* lo..hi with r*r <= x
RECURSIVE SqrtBetween(_, _, _)
SqrtBetween(x, lo, hi) ==
    IF lo >= hi THEN lo
    ELSE LET mid == (lo + hi + 1) \div 2
         IN  IF mid * mid <= x THEN SqrtBetween(x, mid, hi) ELSE SqrtBetween(x, lo, mid - 1)
sqrt32(x) == IF x <= 0 THEN 0 ELSE SqrtBetween(x, 0, 46340)

l2Norm(v) == sqrt32(squaredL2Norm(v))

\* math.Cos(hDist * Pi / hashNum) in thousandths, by the rational approximation
\* cos(x) = (Pi^2 - 4x^2) / (Pi^2 + x^2) on [0, Pi/2] and cos(Pi - x) = -cos(x)
CosMilli(hDist, hashNum) ==
    LET c(h) == (Milli * (hashNum * hashNum - 4 * h * h)) \div (hashNum * hashNum + h * h)
    IN  IF 2 * hDist <= hashNum THEN c(hDist) ELSE 0 - c(hashNum - hDist)

\* --- extend
\* extend with the new norms made as long as their capacity
euclidLSHextendLenIsCap(ix, n) ==
    IF ArrayLen(ix.lshs) < n THEN
        LET lshs == ArrayResize(ix.lshs, n)
            cap == Len(ix.norms)
            newNorms == [i \in 1 .. maxInt(2 * cap, n) |->
                            IF i <= ix.nlen THEN ix.norms[i] ELSE 0]
        IN  IF cap >= n THEN [ix EXCEPT !.lshs = lshs, !.nlen = n]
            ELSE [ix EXCEPT !.lshs = lshs, !.norms = newNorms, !.nlen = maxInt(2 * cap, n)]
    ELSE ix

euclidLSHextend(ix, n) ==
    IF ArrayLen(ix.lshs) < n THEN
        LET lshs == ArrayResize(ix.lshs, n)
            cap == Len(ix.norms)
            newNorms == [i \in 1 .. maxInt(2 * cap, n) |->
                            IF i <= ix.nlen THEN ix.norms[i] ELSE 0]
        IN  IF cap >= n THEN [ix EXCEPT !.lshs = lshs, !.nlen = n]
            ELSE [ix EXCEPT !.lshs = lshs, !.norms = newNorms, !.nlen = n]
    ELSE ix

\* SetRow: the error of lshs.Set is dropped; norms[id-1] panics outside the slice
euclidLSHSetRow(ix, id, v) ==
    LET x == IF ix.nlen < id THEN euclidLSHextend(ix, id) ELSE ix
        s == ArraySet(x.lshs, id - 1, SketchOf(v, ArrayBitNum(x.lshs)))
    IN  IF id - 1 < 0 \/ id - 1 >= x.nlen THEN [e |-> [x EXCEPT !.lshs = s.a], err |-> Panic]
        ELSE [e |-> [x EXCEPT !.lshs = s.a, !.norms[id] = l2Norm(v)], err |-> Nil]

\* --- neighborRowFromHash
\* buf before the sort: one IDist per norm, Dist the score in thousandths
ScoreBuf(ix, x, norm) ==
    [i \in 1 .. ix.nlen |->
        LET hDist == ArrayHammingDistance(ix.lshs, i - 1, x).d
            cos == CosMilli(hDist, ArrayBitNum(ix.lshs))
        IN  [ID |-> (i - 1) + 1, Dist |-> ix.norms[i] * (Milli * ix.norms[i] - 2 * norm * cos)]]

\* the orders of the indexes I of buf in which Dist ascends: any index of
\* least Dist first, then the rest likewise
RECURSIVE AscendingOrders(_, _)
AscendingOrders(buf, I) ==
    IF I = {} THEN {<<>>}
    ELSE UNION { {<<i>> \o t : t \in AscendingOrders(buf, I \ {i})} :
                 i \in {k \in I : \A m \in I : buf[k].Dist <= buf[m].Dist} }

\* sort.Sort(sortByDist(buf)): the sort is not stable, so any arrangement of
\* buf in ascending order of Dist
SortedByDist(buf) ==
    { [k \in DOMAIN buf |-> buf[p[k]]] : p \in AscendingOrders(buf, DOMAIN buf) }

\* the result with the ids left 0-based
NeighborRowsZeroBased(sorted, norm, size) ==
    [i \in 1 .. minInt(size, Len(sorted)) |->
        [ID |-> sorted[i].ID - 1, Dist |-> sqrt32(Milli * (Milli * norm * norm + sorted[i].Dist))]]

\* the result built from a sorted buf: the first min(size, len(buf)) entries,
\* each with its distance sqrt32(norm^2 + score), in thousandths
NeighborRows(sorted, norm, size) ==
    [i \in 1 .. minInt(size, Len(sorted)) |->
        [ID |-> sorted[i].ID, Dist |-> sqrt32(Milli * (Milli * norm * norm + sorted[i].Dist))]]

\* --- save / load
TokFloats(d) == [tag |-> "floats", val |-> d]
\* euclidLSHMsgpack is tagged codec:",toarray": the fixarray header 0x92 of a
\* two-element array, then FormatVersion and Norms
euclidLSHMsgpackHeader == 146

\* save: the encoded record, then the array's own bytes; no byte precedes the record
euclidLSHsave(ix) ==
    <<TokByte(euclidLSHMsgpackHeader), TokInt(euclidLSHFormatVersion),
      TokFloats(SubSeq(ix.norms, 1, ix.nlen))>> \o ArraySave(ix.lshs)

loadEuclidLSHFormatV1(r) ==
    IF Len(r) >= 3 /\ r[1] = TokByte(euclidLSHMsgpackHeader) /\ r[2].tag = "int"
       /\ r[3].tag = "floats"
    THEN LET l == LoadArray(SubSeq(r, 4, Len(r)))
         IN  IF l.err # Nil THEN [e |-> NoIndex, err |-> l.err]
             ELSE [e |-> [lshs |-> l.a, norms |-> r[3].val, nlen |-> Len(r[3].val)],
                   err |-> Nil]
    ELSE [e |-> NoIndex, err |-> ErrDecode]

\* reads one byte as the format version before anything is decoded
loadEuclidLSH(r) ==
    IF r = <<>> THEN [e |-> NoIndex, err |-> ErrEOF]
    ELSE IF r[1] = TokByte(1) THEN loadEuclidLSHFormatV1(Tail(r))
    ELSE [e |-> NoIndex, err |-> ErrLSHVersion]

\* --- the index's state machine
IDs == 1 .. MaxID
QueryIDs == 1 .. MaxQueryID
\* result sizes asked for: from none to more than the index holds
Sizes == 0 .. (MaxQueryID + 1)

InitIndex(hashNums) ==
    /\ \E h \in hashNums : e = NewEuclidLSH(h)
    /\ op = "NewEuclidLSH"
    /\ ret = Ret(Nil, 0, FALSE, 0)
    /\ result = NoResult
    /\ arr = NilArray
    /\ stored = NoStored
    /\ stream = <<>>
    /\ saved = NilArray
    /\ ga = NilArray

InitLSH == InitIndex(HashNums)
InitQuery == InitIndex(QueryHashNums)

SetRow(id, v) ==
    /\ stream = <<>>
    /\ LET r == euclidLSHSetRow(e, id, v)
       IN  e' = r.e /\ ret' = Ret(r.err, 0, FALSE, 0)
    /\ op' = "SetRow"
    /\ result' = NoResult
    /\ UNCHANGED <<arr, stored, stream, saved, ga>>

Query(x, norm, size) ==
    /\ stream = <<>>
    /\ \E sorted \in SortedByDist(ScoreBuf(e, x, norm)) :
           result' = [rows |-> NeighborRows(sorted, norm, size),
                      x |-> x, norm |-> norm, size |-> size]
    /\ ret' = Ret(Nil, 0, FALSE, 0)
    /\ UNCHANGED <<arr, stored, stream, saved, e, ga>>

\* NeighborRowFromID: the query is the stored row id-1 (norms[id-1] panics
\* outside the slice)
NeighborRowFromID(id, size) ==
    /\ id - 1 < e.nlen
    /\ op' = "NeighborRowFromID"
    /\ Query(ArrayGet(e.lshs, id - 1).v, e.norms[id], size)

NeighborRowFromFV(v, size) ==
    /\ op' = "NeighborRowFromFV"
    /\ Query(SketchOf(v, ArrayBitNum(e.lshs)), l2Norm(v), size)

SaveLSH ==
    /\ stream = <<>>
    /\ stream' = euclidLSHsave(e)
    /\ op' = "save"
    /\ ret' = Ret(Nil, 0, FALSE, 0)
    /\ result' = NoResult
    /\ UNCHANGED <<arr, stored, saved, e, ga>>

\* loadEuclidLSH on the saved bytes; a failed load returns no index and the
\* caller keeps the one it has
LoadLSH ==
    /\ stream # <<>>
    /\ LET r == loadEuclidLSH(stream)
       IN  /\ ret' = Ret(r.err, 0, r.e = NoIndex, 0)
           /\ e' = IF r.err = Nil THEN r.e ELSE e
    /\ stream' = <<>>
    /\ op' = "load"
    /\ UNCHANGED <<arr, stored, saved, result, ga>>

\* the index written, saved and loaded
NextLSH ==
    \/ \E id \in IDs : \E v \in FeatureVectors : SetRow(id, v)
    \/ SaveLSH
    \/ LoadLSH

SpecLSH == InitLSH /\ [][NextLSH]_vars

\* the index written and queried
NextQuery ==
    \/ \E id \in QueryIDs : \E v \in FeatureVectors : SetRow(id, v)
    \/ \E id \in QueryIDs : \E size \in Sizes : NeighborRowFromID(id, size)
    \/ \E v \in FeatureVectors : \E size \in Sizes : NeighborRowFromFV(v, size)

SpecQuery == InitQuery /\ [][NextQuery]_vars

\* ---------------------------------------------------------------- the specializations beside a generalArray
\* the largest length a Resize asks of the two arrays
MaxRefineLen == 3
\* widths createArray gives a specialization: below a word (two rows in a word;
\* rows that straddle words), a word, a multiple of a word
RefineBitNums == {32, 63, 64, 128}
RefineIndexes == -1 .. MaxRefineLen

\* &generalArray{bitNum: bitNum}
NewGeneralArray(bitNum) == Array("generalArray", <<>>, 0, bitNum, 0)

InitRefine ==
    /\ \E b \in RefineBitNums : arr = NewArray(b) /\ ga = NewGeneralArray(b)
    /\ op = "NewArray"
    /\ ret = Ret(Nil, 0, FALSE, 0)
    /\ stored = NoStored
    /\ stream = <<>>
    /\ saved = NilArray
    /\ e = NoIndex
    /\ result = NoResult

\* Resize(n) on both arrays
ResizeBoth(n) ==
    /\ arr' = ArrayResize(arr, n)
    /\ ga' = generalArrayResize(ga, n)
    /\ op' = "Resize"
    /\ ret' = Ret(Nil, 0, FALSE, 0)
    /\ UNCHANGED <<stored, stream, saved, e, result>>

\* Set(n, v) on both arrays; ret is what the specialization returned
SetBoth(n, v) ==
    /\ LET r == ArraySet(arr, n, v)
       IN  arr' = r.a /\ ret' = Ret(r.err, 0, FALSE, 0)
    /\ ga' = generalArraySet(ga, n, v).a
    /\ op' = "Set"
    /\ UNCHANGED <<stored, stream, saved, e, result>>

NextRefine ==
    \/ \E n \in 0 .. MaxRefineLen : ResizeBoth(n)
    \/ \E n \in RefineIndexes : \E v \in Args(ArrayBitNum(arr)) : SetBoth(n, v)

SpecRefine == InitRefine /\ [][NextRefine]_vars

\* ---------------------------------------------------------------- claims
\* the rows of an array, and two arrays reading alike through the interface
RowsOf(a) == 0 .. (ArrayLen(a) - 1)
SameContent(a, b) ==
    /\ ArrayLen(a) = ArrayLen(b)
    /\ ArrayBitNum(a) = ArrayBitNum(b)
    /\ \A i \in RowsOf(a) : ArrayGet(a, i) = ArrayGet(b, i)

\* C1: a row inside the length reads as the vector the last successful Set
\* stored there (while the length has covered the row ever since), whatever
\* was set on other rows and however the array was resized, saved and loaded
C1_SetGetRoundTrip ==
    \A i \in Rows :
        (i < ArrayLen(arr) /\ stored[i] # NoVec)
            => ArrayGet(arr, i) = [v |-> stored[i], err |-> Nil]

\* rows 0 and 1 of width 63 hold two vectors: row 1 straddles words 0 and 1 and
\* shares word 0 with row 0
C1_Witness ==
    /\ op = "Set" /\ ret.err = Nil
    /\ ArrayBitNum(arr) = 63 /\ ArrayLen(arr) = 2
    /\ stored[0] = MixVec(63) /\ stored[1] = InvVec(63)

\* C2: a Resize to a greater length keeps what every old row reads and makes
\* every new row read as the all-zero vector
C2_GrowthSafety ==
    [][\A n \in 0 .. MaxLen :
          (Resize(n) /\ n > ArrayLen(arr)) =>
              /\ \A i \in RowsOf(arr) : ArrayGet(arr', i) = ArrayGet(arr, i)
              /\ \A i \in ArrayLen(arr) .. (n - 1) :
                     ArrayGet(arr', i) = [v |-> ZeroVec(ArrayBitNum(arr)), err |-> Nil]]_vars

\* C3: Set with a vector of another width returns the BitNum-mismatch error, Set
\* with a vector of the array's width and a row outside [0, len) returns the
\* invalid-index error, and either way the array is left as it was
C3_SetErrors ==
    \A n \in Indexes : \A v \in Args(ArrayBitNum(arr)) :
        LET r == ArraySet(arr, n, v)
        IN  /\ v.bitNum # ArrayBitNum(arr) => (r.err = ErrBitNum /\ r.a = arr)
            /\ (v.bitNum = ArrayBitNum(arr) /\ (n < 0 \/ n >= ArrayLen(arr)))
                   => (r.err = ErrIndex /\ r.a = arr)
            /\ (v.bitNum = ArrayBitNum(arr) /\ n >= 0 /\ n < ArrayLen(arr)) => r.err = Nil

\* a Set on a non-empty array with stored rows has just returned the index error
C3_Witness ==
    /\ op = "Set" /\ ret.err = ErrIndex
    /\ ArrayLen(arr) = 2 /\ stored[0] # NoVec /\ arr.kind = "multipleOfWordBitsArray"

\* C4: Get and HammingDistance on a row outside [0, len) return the
\* invalid-index error (and so neither panics)
C4_OutOfRangeIsError ==
    \A n \in Indexes :
        (n < 0 \/ n >= ArrayLen(arr)) =>
            /\ ArrayGet(arr, n).err = ErrIndex
            /\ \A v \in Vecs(ArrayBitNum(arr)) : ArrayHammingDistance(arr, n, v).err = ErrIndex

\* C5: LoadArray of the bytes Save wrote succeeds and returns an array of the
\* same length and width whose every row reads as the saved array's row
C5_SaveLoadRoundTrip ==
    (op = "Load" /\ ret.n = arrayFormatVersion) =>
        (ret.err = Nil /\ ~ret.none /\ SameContent(saved, arr))

\* a general-packed array of two rows, the second one set, was saved and loaded
C5_Witness ==
    /\ op = "Load" /\ ret.n = arrayFormatVersion /\ ret.err = Nil
    /\ arr.kind = "generalArray" /\ ArrayLen(arr) = 2 /\ stored[1] # NoVec

\* C6: LoadArray on bytes whose first byte is not 1 returns the
\* unsupported-version error and no array, leaving all that follows the byte
\* unread; on a first byte of 1 it decodes the record
C6_LoadVersion ==
    op = "Load" =>
        IF ret.n # 1
        THEN ret.err = ErrArrayVersion /\ ret.none /\ ret.rest = Len(ArraySave(saved)) - 1
        ELSE ret.err = Nil /\ ~ret.none /\ ret.rest = 0

\* a Load met version byte 99
C6_Witness == op = "Load" /\ ret.n = 99 /\ ret.err = ErrArrayVersion /\ ArrayLen(arr) > 0

\* C7: every SetRow with id >= 1 leaves as many norms as the sketch array has
\* rows; an id greater than the length before makes both equal to id, an id at
\* most the length before leaves both as they were
C7_CoGrowth ==
    [][\A id \in IDs : \A v \in FeatureVectors :
          SetRow(id, v) =>
              /\ e'.nlen = ArrayLen(e'.lshs)
              /\ id > e.nlen => (e'.nlen = id /\ ArrayLen(e'.lshs) = id)
              /\ id <= e.nlen =>
                     (e'.nlen = e.nlen /\ ArrayLen(e'.lshs) = ArrayLen(e.lshs))]_vars

\* SetRows have grown the index to four rows, the norms to a capacity of four,
\* and written every row
C7_Witness ==
    /\ op = "SetRow" /\ ret.err = Nil
    /\ e.nlen = 4 /\ ArrayLen(e.lshs) = 4 /\ Len(e.norms) = 4
    /\ \A i \in 1 .. 4 : e.norms[i] # 0

\* the score of row id for the query the result answers
ScoreOf(id) == ScoreBuf(e, result.x, result.norm)[id].Dist

\* C8: a query of size >= 0 on an index of len rows returns min(size, len)
\* pairs, with pairwise distinct ids in 1..len, in ascending order of score and
\* of distance, and no row left out scores less than a row returned
C8_QueryResult ==
    op \in {"NeighborRowFromID", "NeighborRowFromFV"} =>
        LET rows == result.rows
            ids == {rows[k].ID : k \in DOMAIN rows}
        IN  /\ Len(rows) = Min(result.size, e.nlen)
            /\ ids \subseteq 1 .. e.nlen
            /\ \A j, k \in DOMAIN rows : j # k => rows[j].ID # rows[k].ID
            /\ \A j, k \in DOMAIN rows :
                   j < k => /\ ScoreOf(rows[j].ID) <= ScoreOf(rows[k].ID)
                            /\ rows[j].Dist <= rows[k].Dist
            /\ \A left \in (1 .. e.nlen) \ ids : \A kept \in ids : ScoreOf(kept) <= ScoreOf(left)

\* a query of size 1 on two rows returned the second row and left out the first
C8_Witness ==
    /\ op = "NeighborRowFromFV" /\ e.nlen = 2
    /\ result.size = 1 /\ Len(result.rows) = 1 /\ result.rows[1].ID = 2
    /\ ScoreOf(2) < ScoreOf(1)

\* C9: save writes a version byte, then the record, then the array's bytes, and
\* loadEuclidLSH on what save wrote succeeds and returns an index with the same
\* norms and the same sketches
C9_LSHSaveLoadRoundTrip ==
    /\ op = "save" => /\ stream[1] = TokByte(euclidLSHFormatVersion)
                      /\ stream[2] = TokByte(euclidLSHMsgpackHeader)
                      /\ SubSeq(stream, 5, Len(stream)) = ArraySave(e.lshs)
    /\ op = "load" => (ret.err = Nil /\ ~ret.none)

\* the kind the selection table names for a width
SelectionTable(bitNum) ==
    IF bitNum < wordBits /\ bitNum \in {1, 2, 4, 8, 16, 32} THEN "smallPowerOfTwoBitsArray"
    ELSE IF bitNum < wordBits THEN "smallBitsArray"
    ELSE IF bitNum = wordBits THEN "wordArray"
    ELSE IF bitNum % wordBits = 0 THEN "multipleOfWordBitsArray"
    ELSE "generalArray"

\* C10: the array made by NewArray, and the one made by LoadArray from the
\* persisted width, is of the kind the selection table names for its width
C10_Selection == arr.kind = SelectionTable(ArrayBitNum(arr))

\* C11: after the same Resize and Set calls a specialization and a generalArray
\* of its bitNum have the same Len, Get returns the same error or the same
\* vector from both for every row, and Set the same error
C11_Refines ==
    /\ ArrayLen(arr) = ga.len
    /\ \A n \in RefineIndexes :
           /\ ArrayGet(arr, n) = generalArrayGet(ga, n)
           /\ \A v \in Args(ArrayBitNum(arr)) :
                  ArraySet(arr, n, v).err = generalArraySet(ga, n, v).err

\* the vectors a distance is taken to: the two contents rows are set to, the
\* all-zero and the all-one vector
DistanceVecs(bitNum) == Vecs(bitNum) \cup {ZeroVec(bitNum), OnesVec(bitNum)}

\* C12: for every row inside the length and every vector of the array's width,
\* HammingDistance returns without error the number of bit positions in which
\* the vector Get returns for the row differs from the vector given
C12_HammingAgreesWithGet ==
    \A i \in RowsOf(arr) : \A v \in DistanceVecs(ArrayBitNum(arr)) :
        /\ ArrayGet(arr, i).err = Nil
        /\ ArrayHammingDistance(arr, i, v) =
               [d |-> Cardinality(Xor(BitsOf(ArrayGet(arr, i).v), BitsOf(v))), err |-> Nil]

\* row 1 of width 63, which straddles words 0 and 1, holds a vector that
\* differs from its complement in all 63 positions
C12_Witness ==
    /\ arr.kind = "smallBitsArray" /\ ArrayBitNum(arr) = 63 /\ ArrayLen(arr) = 2
    /\ op = "Set" /\ stored[1] = MixVec(63)
    /\ ArrayHammingDistance(arr, 1, InvVec(63)) = [d |-> 63, err |-> Nil]

\* the capacity of the array's buffer, in words
ArrayCap(a) == Len(a.data)

\* C13: in every state the buffer's capacity is at least the number of words
\* that len vectors of bitNum bits take, and no Resize and no Set makes the
\* capacity smaller
C13_Capacity ==
    /\ [](ArrayCap(arr) >= nWords(ArrayBitNum(arr), ArrayLen(arr)))
    /\ [][((\E n \in 0 .. MaxLen : Resize(n))
            \/ (\E n \in Indexes : \E v \in Args(ArrayBitNum(arr)) : Set(n, v)))
              => ArrayCap(arr') >= ArrayCap(arr)]_vars

\* an array of width 128 was grown to two rows and then resized to none: its
\* buffer still has the words of the two rows
C13_Witness ==
    /\ op = "Resize" /\ arr.kind = "multipleOfWordBitsArray"
    /\ ArrayLen(arr) = 0 /\ ArrayCap(arr) >= 4

====
